---- MODULE Spec2Model ----
(***************************************************************************)
(* Black-Scholes valuation object (src/BlackScholes.py): the constructor,  *)
(* calculate_prices and calculate_risk_metrics, as a state machine over    *)
(* one BlackScholes instance.                                              *)
(*                                                                         *)
(* Numbers.  The program computes in IEEE binary64 and rounds stored       *)
(* values to `precision=10` decimals.  TLC has 32-bit integers, so the     *)
(* model keeps the structure of that arithmetic at a reduced resolution:   *)
(* a finite float is an integer count of units of 10^-FloatDigits (the     *)
(* resolution of the arithmetic, standing for binary64), and the rounding  *)
(* step rounds to Precision decimals (standing for precision=10), with     *)
(* Precision < FloatDigits, so that unrounded results carry digits the     *)
(* rounding step removes.  Non-finite values (nan, +inf, -inf), the        *)
(* negative zero and None are values of their own.                         *)
(***************************************************************************)
EXTENDS Integers, Sequences, FiniteSets, TLC

\* Decimals carried by the arithmetic (stands for the resolution of binary64).
FloatDigits == 5
\* Decimals kept by the rounding step (stands for precision=10).
Precision == 3
\* Calls made on the instance in one behaviour.
MaxCalls == 3

RECURSIVE Pow10(_)
Pow10(n) == IF n = 0 THEN 1 ELSE 10 * Pow10(n - 1)

\* One (1.0) in units.
Scale == Pow10(FloatDigits)
\* The rounding grid in units: 10^-Precision.
Grid == Pow10(FloatDigits - Precision)

\* The decimal m * 10^-d in units (d <= FloatDigits).
Dec(m, d) == m * Pow10(FloatDigits - d)

Abs(n) == IF n < 0 THEN -n ELSE n
Sgn(n) == IF n < 0 THEN -1 ELSE 1

-----------------------------------------------------------------------------
(* Integer kernels of the arithmetic: products, quotients and the          *)
(* elementary functions on unit counts, digit by digit so that no          *)
(* intermediate leaves 32 bits.  Results are truncated to the unit.        *)

RECURSIVE MulFrac(_, _, _, _)
\* a * (f / Scale) for a fraction f < Scale, least significant digit first.
MulFrac(a, f, n, acc) ==
    IF n = 0 THEN acc
    ELSE MulFrac(a, f \div 10, n - 1, (a * (f % 10) + acc) \div 10)

\* |a| * |b| / Scale, for a, b >= 0.
MulAbs(a, b) == a * (b \div Scale) + MulFrac(a, b % Scale, FloatDigits, 0)

RECURSIVE DivFrac(_, _, _, _)
\* The FloatDigits fractional digits of r / b, for r < b.
DivFrac(r, b, n, acc) ==
    IF n = 0 THEN acc
    ELSE DivFrac((r * 10) % b, b, n - 1, acc * 10 + ((r * 10) \div b))

\* |a| / |b| in units, for a >= 0, b > 0.
DivAbs(a, b) == (a \div b) * Scale + DivFrac(a % b, b, FloatDigits, 0)

IMul(a, b) == Sgn(a) * Sgn(b) * MulAbs(Abs(a), Abs(b))
IDiv(a, b) == Sgn(a) * Sgn(b) * DivAbs(Abs(a), Abs(b))

RECURSIVE SqrtIter(_, _)
\* Newton's iteration for the square root of x, from above.
SqrtIter(x, s) ==
    LET t == (s + DivAbs(x, s)) \div 2
    IN  IF t >= s THEN s ELSE SqrtIter(x, t)

\* sqrt(x) in units, for x >= 0.
ISqrt(x) == IF x = 0 THEN 0 ELSE SqrtIter(x, IF x > Scale THEN x ELSE Scale)

RECURSIVE ExpSeries(_, _, _)
\* sum of y^n / n! from the term t = y^(n-1)/(n-1)! on.
ExpSeries(y, t, n) ==
    IF t = 0 THEN 0 ELSE t + ExpSeries(y, IMul(t, y) \div n, n + 1)

RECURSIVE ExpReduced(_)
\* e^x for x <= 0: halve the argument down to [-1/2, 0], then square back.
ExpReduced(x) ==
    IF 2 * Abs(x) <= Scale THEN ExpSeries(x, Scale, 1)
    ELSE LET h == ExpReduced(x \div 2) IN MulAbs(h, h)

\* e^x in units.
IExp(x) == IF x <= 0 THEN ExpReduced(x) ELSE DivAbs(Scale, ExpReduced(-x))

RECURSIVE AtanhSeries(_, _, _)
\* sum of z^k / k over odd k, from the power p = z^k on.
AtanhSeries(p, z2, k) ==
    IF p = 0 THEN 0 ELSE (p \div k) + AtanhSeries(IMul(p, z2), z2, k + 2)

\* ln(x) for x in [1/2, 2]: 2 * atanh((x - 1) / (x + 1)).
LnSeries(x) ==
    LET z == IDiv(x - Scale, x + Scale)
    IN  2 * AtanhSeries(z, IMul(z, z), 1)

RECURSIVE ILn(_)
\* ln(x) in units, for x > 0: bring x into [1/2, 2] by factors of two.
ILn(x) ==
    IF x > 2 * Scale THEN ILn(x \div 2) + LnSeries(2 * Scale)
    ELSE IF 2 * x < Scale THEN ILn(2 * x) - LnSeries(2 * Scale)
    ELSE LnSeries(x)

\* sqrt(2 * pi) in units.
Sqrt2Pi == 250662827 \div Pow10(8 - FloatDigits)

\* The standard normal density at x.
IPdf(x) == DivAbs(IExp(-(MulAbs(Abs(x), Abs(x)) \div 2)), Sqrt2Pi)

RECURSIVE CdfSeries(_, _, _)
\* The alternating sum of u_n / (2n+1), u_n = x^(2n+1) / (2^n n!), from u = u_n on:
\* the Taylor series of the integral of e^(-t^2/2) from 0 to x.
CdfSeries(u, x2, n) ==
    IF u = 0 THEN 0
    ELSE (u \div (2 * n + 1)) - CdfSeries(MulAbs(u, x2) \div (2 * n + 2), x2, n + 1)

\* 1 - Phi(x) for large x > 0: phi(x)/x * (1 - 1/x^2 + 3/x^4).
CdfTail(x) ==
    LET r  == DivAbs(Scale, x)
        r2 == MulAbs(r, r)
    IN  MulAbs(MulAbs(IPdf(x), r), Scale - r2 + 3 * MulAbs(r2, r2))

\* Phi(x) for x >= 0: the series up to 3.5, the tail expansion beyond.
CdfUpper(x) ==
    IF 2 * x <= 7 * Scale
    THEN LET c == (Scale \div 2) + DivAbs(CdfSeries(x, MulAbs(x, x), 0), Sqrt2Pi)
         IN  IF c > Scale THEN Scale ELSE c
    ELSE Scale - CdfTail(x)

\* The standard normal distribution function, with Phi(x) + Phi(-x) = 1.
ICdf(x) == IF x >= 0 THEN CdfUpper(x) ELSE Scale - CdfUpper(-x)

-----------------------------------------------------------------------------
(* Python values.  A float is a record [k, v]: k = "fin" with v its unit   *)
(* count, "nz" the negative zero -0.0, "inf" with v = 1 or -1, "nan".      *)
(* None is the value None; Unset marks an attribute the object does not    *)
(* have yet.                                                               *)

Fin(n)  == [k |-> "fin", v |-> n]
NegZero == [k |-> "nz", v |-> 0]
PosInf  == [k |-> "inf", v |-> 1]
NegInf  == [k |-> "inf", v |-> -1]
NaN     == [k |-> "nan", v |-> 0]
None    == [k |-> "none", v |-> 0]
Unset   == [k |-> "unset", v |-> 0]
Zero    == Fin(0)

IsNum(a)    == a.k \in {"fin", "nz"}
IsNaN(a)    == a.k = "nan"
IsInf(a)    == a.k = "inf"
IsZero(a)   == IsNum(a) /\ a.v = 0
\* The sign bit as +1 / -1.
SignOf(a)   == IF a.k = "nz" \/ a.v < 0 THEN -1 ELSE 1
\* The float of sign s and magnitude m units.
Mk(s, m)    == IF m = 0 THEN (IF s < 0 THEN NegZero ELSE Zero) ELSE Fin(s * m)
InfOf(s)    == IF s < 0 THEN NegInf ELSE PosInf

\* -a
FNeg(a) ==
    IF IsNaN(a) THEN NaN
    ELSE IF IsInf(a) THEN InfOf(-a.v)
    ELSE Mk(-SignOf(a), Abs(a.v))

\* abs(a)
FAbs(a) ==
    IF IsNaN(a) THEN NaN
    ELSE IF IsInf(a) THEN PosInf
    ELSE Fin(Abs(a.v))

\* a + b
FAdd(a, b) ==
    IF IsNaN(a) \/ IsNaN(b) THEN NaN
    ELSE IF IsInf(a) /\ IsInf(b) THEN (IF a.v = b.v THEN a ELSE NaN)
    ELSE IF IsInf(a) THEN a
    ELSE IF IsInf(b) THEN b
    ELSE IF a.k = "nz" /\ b.k = "nz" THEN NegZero
    ELSE Fin(a.v + b.v)

\* a - b
FSub(a, b) == FAdd(a, FNeg(b))

\* a * b
FMul(a, b) ==
    IF IsNaN(a) \/ IsNaN(b) THEN NaN
    ELSE IF (IsInf(a) /\ IsZero(b)) \/ (IsZero(a) /\ IsInf(b)) THEN NaN
    ELSE IF IsInf(a) \/ IsInf(b) THEN InfOf(SignOf(a) * SignOf(b))
    ELSE Mk(SignOf(a) * SignOf(b), MulAbs(Abs(a.v), Abs(b.v)))

\* a / b between numpy floats: a zero divisor gives inf or nan (and a warning).
FDiv(a, b) ==
    IF IsNaN(a) \/ IsNaN(b) THEN NaN
    ELSE IF IsInf(a) /\ IsInf(b) THEN NaN
    ELSE IF IsInf(a) THEN InfOf(SignOf(a) * SignOf(b))
    ELSE IF IsInf(b) THEN Mk(SignOf(a) * SignOf(b), 0)
    ELSE IF IsZero(b) THEN (IF IsZero(a) THEN NaN ELSE InfOf(SignOf(a) * SignOf(b)))
    ELSE Mk(SignOf(a) * SignOf(b), DivAbs(Abs(a.v), Abs(b.v)))

\* Python's a == b: nan equals nothing, the two zeros are equal.
FEq(a, b) ==
    /\ ~IsNaN(a) /\ ~IsNaN(b)
    /\ IF IsNum(a) /\ IsNum(b) THEN a.v = b.v ELSE a = b

\* Python's a < b.
FLess(a, b) ==
    /\ ~IsNaN(a) /\ ~IsNaN(b)
    /\ IF IsInf(a) THEN a.v < 0 /\ b # a
       ELSE IF IsInf(b) THEN b.v > 0
       ELSE a.v < b.v

\* Python's truth value of a: None and the zeros are false.
Truthy(a) == ~(a = None \/ IsZero(a))

\* numpy.sqrt: nan (and a warning) below zero.
sqrt(a) ==
    IF IsNaN(a) THEN NaN
    ELSE IF a.k = "nz" THEN NegZero
    ELSE IF a.v < 0 THEN NaN
    ELSE IF IsInf(a) THEN PosInf
    ELSE Fin(ISqrt(a.v))

\* numpy.log: -inf at zero, nan below zero (and a warning).
log(a) ==
    IF IsNaN(a) THEN NaN
    ELSE IF IsZero(a) THEN NegInf
    ELSE IF a.v < 0 THEN NaN
    ELSE IF IsInf(a) THEN PosInf
    ELSE Fin(ILn(a.v))

\* numpy.exp
exp(a) ==
    IF IsNaN(a) THEN NaN
    ELSE IF IsInf(a) THEN (IF a.v > 0 THEN PosInf ELSE Zero)
    ELSE Fin(IExp(a.v))

\* scipy.stats.norm.cdf
norm_cdf(a) ==
    IF IsNaN(a) THEN NaN
    ELSE IF IsInf(a) THEN (IF a.v > 0 THEN Fin(Scale) ELSE Zero)
    ELSE Fin(ICdf(a.v))

\* scipy.stats.norm.pdf
norm_pdf(a) ==
    IF IsNaN(a) THEN NaN
    ELSE IF IsInf(a) THEN Zero
    ELSE Fin(IPdf(a.v))

-----------------------------------------------------------------------------
(* The rounding idiom float(np.format_float_positional(x, precision=10)):  *)
(* x is written as decimal text with at most Precision digits after the    *)
(* point, and the text is parsed back.                                     *)

\* np.format_float_positional(x, precision=...): the text of x, as its sign, its
\* integer digits and its (rounded) fractional digits; "nan" and "inf" for the
\* non-finite values.  The last digit is rounded to nearest, a tie to even.
format_float_positional(x) ==
    IF IsNaN(x) THEN [t |-> "nan", neg |-> FALSE, int |-> 0, frac |-> 0]
    ELSE IF IsInf(x) THEN [t |-> "inf", neg |-> x.v < 0, int |-> 0, frac |-> 0]
    ELSE LET lo  == Abs(x.v) \div Grid
             rem == Abs(x.v) % Grid
             q   == IF 2 * rem > Grid \/ (2 * rem = Grid /\ lo % 2 = 1)
                    THEN lo + 1 ELSE lo
         IN  [t |-> "dec", neg |-> SignOf(x) < 0,
              int |-> q \div Pow10(Precision), frac |-> q % Pow10(Precision)]

\* float(text)
float(txt) ==
    IF txt.t = "nan" THEN NaN
    ELSE IF txt.t = "inf" THEN (IF txt.neg THEN NegInf ELSE PosInf)
    ELSE Mk(IF txt.neg THEN -1 ELSE 1, (txt.int * Pow10(Precision) + txt.frac) * Grid)

\* float(np.format_float_positional(x, precision=10))
float_format(x) == float(format_float_positional(x))

-----------------------------------------------------------------------------
(* The BlackScholes object.                                                *)

InputFields ==
    {"time_to_maturity", "strike", "current_price", "volatility", "interest_rate",
     "call_purchase_price", "put_purchase_price", "purchase_time_to_maturity"}

PriceFields ==
    {"call_price", "put_price", "call_pnl", "call_pnl_percentage", "put_pnl",
     "put_pnl_percentage", "call_delta", "put_delta", "gamma"}

RiskFields ==
    {"max_call_loss", "max_put_loss", "max_call_gain", "max_put_gain",
     "call_breakeven", "put_breakeven"}

\* BlackScholes.__init__: the attributes of a new instance built from the
\* arguments r; the attributes the two methods set do not exist yet.
BlackScholes(r) ==
    [time_to_maturity    |-> float_format(r.time_to_maturity),
     strike              |-> float_format(r.strike),
     current_price       |-> float_format(r.current_price),
     volatility          |-> float_format(r.volatility),
     interest_rate       |-> float_format(r.interest_rate),
     call_purchase_price |-> IF r.call_purchase_price # None
                             THEN float_format(r.call_purchase_price) ELSE None,
     put_purchase_price  |-> IF r.put_purchase_price # None
                             THEN float_format(r.put_purchase_price) ELSE None,
     purchase_time_to_maturity |->
         float_format(IF Truthy(r.purchase_time_to_maturity)
                      THEN r.purchase_time_to_maturity ELSE r.time_to_maturity)]
    @@ [f \in PriceFields \cup RiskFields |-> Unset]

\* The literals of the code.
Half    == Fin(Scale \div 2)
Hundred == Fin(100 * Scale)
\* 1e-10, one step of the rounding grid.
Eps     == Fin(Grid)

\* sigma * sqrt(T), the denominator of d1.
vol_sqrt_t(self) == FMul(self.volatility, sqrt(self.time_to_maturity))

d1(self) ==
    FDiv(FAdd(log(FDiv(self.current_price, self.strike)),
              FMul(FAdd(self.interest_rate,
                        FMul(Half, FMul(self.volatility, self.volatility))),
                   self.time_to_maturity)),
         vol_sqrt_t(self))

d2(self) == FSub(d1(self), vol_sqrt_t(self))

\* exp(-r * T)
discount(self) == exp(FMul(FNeg(self.interest_rate), self.time_to_maturity))

\* Slip: the call price stored as computed, without the rounding step.
call_price_unrounded(self) ==
    FSub(FMul(self.current_price, norm_cdf(d1(self))),
         FMul(FMul(self.strike, discount(self)), norm_cdf(d2(self))))

call_price(self) ==
    float_format(
        FSub(FMul(self.current_price, norm_cdf(d1(self))),
             FMul(FMul(self.strike, discount(self)), norm_cdf(d2(self)))))

put_price(self) ==
    float_format(
        FSub(FMul(FMul(self.strike, discount(self)), norm_cdf(FNeg(d2(self)))),
             FMul(self.current_price, norm_cdf(FNeg(d1(self))))))

\* The test the code makes before computing a leg's PnL: the purchase was made at
\* the present maturity and (current_price compared with itself) at the present spot.
same_time_and_spot(self) ==
    /\ FLess(FAbs(FSub(self.time_to_maturity, self.purchase_time_to_maturity)), Eps)
    /\ FLess(FAbs(FSub(self.current_price, self.current_price)), Eps)

\* A leg's PnL fields, from its price and its purchase price.
leg_pnl(self, price, purchase) ==
    IF purchase # None
    THEN IF same_time_and_spot(self)
         THEN [pnl |-> Zero, pct |-> Zero]
         ELSE LET pnl == float_format(FSub(price, purchase))
              IN  [pnl |-> pnl,
                   pct |-> float_format(IF ~FEq(purchase, Zero)
                                        THEN FMul(FDiv(pnl, purchase), Hundred)
                                        ELSE Zero)]
    ELSE [pnl |-> Zero, pct |-> Zero]

\* Slip: the call leg decided by the put's purchase price.
call_pnl_other_leg(self, price) == leg_pnl(self, price, self.put_purchase_price)

call_pnl(self, price) == leg_pnl(self, price, self.call_purchase_price)

put_pnl(self, price) == leg_pnl(self, price, self.put_purchase_price)

call_delta(self) == norm_cdf(d1(self))

put_delta(self) == FNeg(norm_cdf(FNeg(d1(self))))

gamma(self) ==
    FDiv(norm_pdf(d1(self)),
         FMul(FMul(self.current_price, self.volatility), sqrt(self.time_to_maturity)))

\* current_price / strike between Python floats raises ZeroDivisionError.
prices_raise(self) == IsZero(self.strike)

\* Slip: the call also records the present maturity as the purchase maturity.
calculate_prices_moves_purchase(self) ==
    LET call == call_price(self)
        put  == put_price(self)
        cp   == call_pnl(self, call)
        pp   == put_pnl(self, put)
    IN  [self EXCEPT !.call_price = call,
                     !.put_price = put,
                     !.call_pnl = cp.pnl,
                     !.call_pnl_percentage = cp.pct,
                     !.put_pnl = pp.pnl,
                     !.put_pnl_percentage = pp.pct,
                     !.call_delta = call_delta(self),
                     !.put_delta = put_delta(self),
                     !.gamma = gamma(self),
                     !.purchase_time_to_maturity = self.time_to_maturity]

\* BlackScholes.calculate_prices: the object after the call.
calculate_prices(self) ==
    LET call == call_price(self)
        put  == put_price(self)
        cp   == call_pnl(self, call)
        pp   == put_pnl(self, put)
    IN  [self EXCEPT !.call_price = call,
                     !.put_price = put,
                     !.call_pnl = cp.pnl,
                     !.call_pnl_percentage = cp.pct,
                     !.put_pnl = pp.pnl,
                     !.put_pnl_percentage = pp.pct,
                     !.call_delta = call_delta(self),
                     !.put_delta = put_delta(self),
                     !.gamma = gamma(self)]

\* Slip: the purchase price taken without abs().
max_call_loss_signed(self) ==
    float_format(IF self.call_purchase_price # None
                 THEN self.call_purchase_price ELSE Zero)

max_call_loss(self) ==
    float_format(IF self.call_purchase_price # None
                 THEN FAbs(self.call_purchase_price) ELSE Zero)

max_put_loss(self) ==
    float_format(IF self.put_purchase_price # None
                 THEN FAbs(self.put_purchase_price) ELSE Zero)

\* Slip: `if self.call_purchase_price:` in place of `is not None`.
max_call_gain_truthy(self) ==
    IF Truthy(self.call_purchase_price) THEN PosInf ELSE Zero

max_call_gain(self) ==
    IF self.call_purchase_price # None THEN PosInf ELSE Zero

\* Slip: `if self.put_purchase_price:` in place of `is not None`.
max_put_gain_truthy(self) ==
    IF Truthy(self.put_purchase_price)
    THEN float_format(FSub(self.strike, self.put_purchase_price))
    ELSE Zero

max_put_gain(self) ==
    IF self.put_purchase_price # None
    THEN float_format(FSub(self.strike, self.put_purchase_price))
    ELSE Zero

\* Slip: the call's purchase price subtracted, as for the put.
call_breakeven_minus(self) ==
    float_format(FSub(self.strike,
                      IF Truthy(self.call_purchase_price)
                      THEN self.call_purchase_price ELSE Zero))

call_breakeven(self) ==
    float_format(FAdd(self.strike,
                      IF Truthy(self.call_purchase_price)
                      THEN self.call_purchase_price ELSE Zero))

put_breakeven(self) ==
    float_format(FSub(self.strike,
                      IF Truthy(self.put_purchase_price)
                      THEN self.put_purchase_price ELSE Zero))

\* BlackScholes.calculate_risk_metrics: the object after the call.
calculate_risk_metrics(self) ==
    [self EXCEPT !.max_call_loss = max_call_loss(self),
                 !.max_put_loss = max_put_loss(self),
                 !.max_call_gain = max_call_gain(self),
                 !.max_put_gain = max_put_gain(self),
                 !.call_breakeven = call_breakeven(self),
                 !.put_breakeven = put_breakeven(self)]

\* The dictionary calculate_risk_metrics returns.
risk_metrics(self) == [f \in RiskFields |-> self[f]]

\* The dashboard's test of the maximum call gain (streamlit_app.py):
\* risk_metrics['max_call_gain'] == float('inf') selects the text "$inf".
shows_inf(metrics) == FEq(metrics.max_call_gain, PosInf)

-----------------------------------------------------------------------------
(* The requests: the arguments the instance is built from.                 *)

Request(T, K, S, sigma, r, cpp, ppp, ptm) ==
    [time_to_maturity |-> T, strike |-> K, current_price |-> S, volatility |-> sigma,
     interest_rate |-> r, call_purchase_price |-> cpp, put_purchase_price |-> ppp,
     purchase_time_to_maturity |-> ptm]

Maturities == {Fin(Dec(5, 1)), Fin(Dec(1, 0))}
Strikes    == {Fin(Dec(90, 0)), Fin(Dec(100, 0)), Fin(Dec(110, 0))}
\* One spot carries digits below the rounding grid.
Spots      == {Fin(Dec(100, 0)), Fin(Dec(10500004, 5))}
Vols       == {Fin(Dec(2, 1)), Fin(Dec(3, 1))}
Rates      == {Zero, Fin(Dec(5, 2))}

CallPurchases == {None, Zero, Fin(Dec(8, 0)), Fin(-Dec(8, 0))}
PutPurchases  == {None, Zero, Fin(Dec(6, 0)), Fin(Dec(95, 0)), Fin(-Dec(6, 0))}
PurchaseTimes == {None, Zero, Fin(Dec(5, 1)), Fin(Dec(1, 0))}

\* Values of the four parameters the formula needs positive: zero, a negative
\* value, and a positive value below half a step of the rounding grid.
Tiny       == Fin(Dec(4, 5))
Degenerate == {Zero, Fin(-Dec(1, 0)), Tiny}

\* Every market with three positions.
MarketRequests ==
    {Request(T, K, S, sigma, r, p[1], p[2], p[3]) :
        T \in Maturities, K \in Strikes, S \in Spots, sigma \in Vols, r \in Rates,
        p \in {<<None, None, None>>,
               <<Fin(Dec(8, 0)), Fin(Dec(6, 0)), None>>,
               <<Fin(Dec(8, 0)), Fin(Dec(6, 0)), Fin(Dec(2, 0))>>}}

\* Every position on the reference market of the tests.
PositionRequests ==
    {Request(Fin(Dec(1, 0)), K, Fin(Dec(100, 0)), Fin(Dec(2, 1)), Fin(Dec(5, 2)),
             cpp, ppp, ptm) :
        K \in {Fin(Dec(90, 0)), Fin(Dec(100, 0))},
        cpp \in CallPurchases, ppp \in PutPurchases, ptm \in PurchaseTimes}

\* The reference market with one parameter degenerate.
EdgeRequests ==
    LET base(T, K, S, sigma, p) ==
            Request(T, K, S, sigma, Fin(Dec(5, 2)), p[1], p[2], p[3])
        one  == Fin(Dec(1, 0))
        k    == Fin(Dec(100, 0))
        vol  == Fin(Dec(2, 1))
        pos  == {<<None, None, None>>, <<Fin(Dec(8, 0)), Fin(Dec(6, 0)), Fin(Dec(2, 0))>>}
    IN  UNION {{base(x, k, k, vol, p), base(one, x, k, vol, p),
                base(one, k, x, vol, p), base(one, k, k, x, p),
                base(x, Fin(Dec(90, 0)), k, vol, p)} :
               x \in Degenerate, p \in pos}

Requests == MarketRequests \cup PositionRequests \cup EdgeRequests

\* The request asks for a value the formula does not define.
Invalid(r) ==
    \/ ~FLess(Zero, r.time_to_maturity)
    \/ ~FLess(Zero, r.volatility)
    \/ ~FLess(Zero, r.strike)
    \/ ~FLess(Zero, r.current_price)

-----------------------------------------------------------------------------
(* The state machine: one instance and the calls made on it.               *)

VARIABLES
    req,          \* the arguments the instance was built from
    self,         \* the attributes of the instance
    prices_ret,   \* what the last calculate_prices returned
    metrics_ret,  \* what the last calculate_risk_metrics returned
    raised,       \* the exception the last call raised, "none" if it returned
    calls,        \* calls made so far
    pc,           \* the dashboard script's position, "library" without a dashboard
    sweep,        \* the dashboard's heatmap ranges
    heatmaps      \* the value matrix of each heatmap plotted so far

vars == <<req, self, prices_ret, metrics_ret, raised, calls, pc, sweep, heatmaps>>

\* The dashboard's part of the state.
dashboard == <<pc, sweep, heatmaps>>

\* No heatmap ranges, no heatmap plotted.
NoSweep    == [spot_min |-> Unset, spot_max |-> Unset, vol_min |-> Unset, vol_max |-> Unset]
HeatmapTypes == {"value_call", "pnl_call", "value_put", "pnl_put"}
NoHeatmaps == [t \in HeatmapTypes |-> <<>>]

NoPrices  == <<Unset, Unset>>
NoMetrics == [f \in RiskFields |-> Unset]

Init ==
    /\ req \in Requests
    /\ self = BlackScholes(req)
    /\ prices_ret = NoPrices
    /\ metrics_ret = NoMetrics
    /\ raised = "none"
    /\ calls = 0
    /\ pc = "library"
    /\ sweep = NoSweep
    /\ heatmaps = NoHeatmaps

\* call_price, put_price = bs.calculate_prices()
CalculatePrices ==
    /\ calls < MaxCalls
    /\ calls' = calls + 1
    /\ IF prices_raise(self)
       THEN /\ raised' = "ZeroDivisionError"
            /\ UNCHANGED <<self, prices_ret>>
       ELSE /\ raised' = "none"
            /\ self' = calculate_prices(self)
            /\ prices_ret' = <<self'.call_price, self'.put_price>>
    /\ UNCHANGED <<req, metrics_ret, dashboard>>

\* risk_metrics = bs.calculate_risk_metrics()
CalculateRiskMetrics ==
    /\ calls < MaxCalls
    /\ calls' = calls + 1
    /\ raised' = "none"
    /\ self' = calculate_risk_metrics(self)
    /\ metrics_ret' = risk_metrics(self')
    /\ UNCHANGED <<req, prices_ret, dashboard>>

Next == CalculatePrices \/ CalculateRiskMetrics

Spec == Init /\ [][Next]_vars

-----------------------------------------------------------------------------
(* The dashboard (src/streamlit_app.py): the script builds bs_model from   *)
(* the sidebar's inputs, calls its two methods and plots four heatmaps     *)
(* over a grid of spot prices and volatilities.                            *)

\* The points of each heatmap axis.
HeatmapPoints == 10

\* np.linspace(start, stop, num): num evenly spaced values, the last one stop.
linspace(start, stop, num) ==
    LET step == FDiv(FSub(stop, start), Fin((num - 1) * Scale))
    IN  [i \in 1..num |->
            IF i = num THEN stop
            ELSE FAdd(FMul(Fin((i - 1) * Scale), step), start)]

\* The instance plot_heatmap builds for the cell (vol, spot).
bs_temp(bs_model, strike, spot, vol) ==
    BlackScholes(Request(bs_model.time_to_maturity, strike, spot, vol,
                         bs_model.interest_rate,
                         bs_model.call_purchase_price,
                         bs_model.put_purchase_price,
                         bs_model.purchase_time_to_maturity))

\* The value plot_heatmap writes into the cell (vol, spot); a cell no branch
\* writes keeps the 0.0 of np.zeros.
heatmap_cell(bs_model, strike, spot, vol, purchase_price, type) ==
    LET priced == calculate_prices(bs_temp(bs_model, strike, spot, vol))
    IN  IF type = "value_call" THEN priced.call_price
        ELSE IF type = "value_put" THEN priced.put_price
        ELSE IF type = "pnl_call" /\ purchase_price # None
             THEN FSub(priced.call_price, purchase_price)
        ELSE IF type = "pnl_put" /\ purchase_price # None
             THEN FSub(priced.put_price, purchase_price)
        ELSE Zero

\* plot_heatmap: the matrix `values`, a row per volatility, a column per spot.
plot_heatmap(bs_model, spot_range, vol_range, strike, purchase_price, type) ==
    [i \in 1..Len(vol_range) |->
        [j \in 1..Len(spot_range) |->
            heatmap_cell(bs_model, strike, spot_range[j], vol_range[i],
                         purchase_price, type)]]

\* spot_range and vol_range of the script.
spot_range == linspace(sweep.spot_min, sweep.spot_max, HeatmapPoints)
vol_range  == linspace(sweep.vol_min, sweep.vol_max, HeatmapPoints)

\* The sidebar's inputs: number_input always gives a float, so both purchase
\* prices and the purchase maturity are supplied.  One call purchase price
\* carries digits below the rounding grid.
DashboardRequests ==
    {Request(Fin(Dec(1, 0)), K, Fin(Dec(100, 0)), Fin(Dec(2, 1)), Fin(Dec(5, 2)),
             cpp, ppp, ptm) :
        K \in {Fin(Dec(100, 0)), Fin(Dec(110, 0))},
        cpp \in {Zero, Fin(Dec(8, 0)), Fin(Dec(800004, 5))},
        ppp \in {Zero, Fin(Dec(6, 0))},
        ptm \in {Fin(Dec(1, 0)), Fin(Dec(5, 1))}}

\* The default heatmap ranges: 0.8 to 1.2 times the spot, 0.5 to 1.5 times
\* the volatility.
default_sweep(r) ==
    [spot_min |-> FMul(r.current_price, Fin(Dec(8, 1))),
     spot_max |-> FMul(r.current_price, Fin(Dec(12, 1))),
     vol_min  |-> FMul(r.volatility, Fin(Dec(5, 1))),
     vol_max  |-> FMul(r.volatility, Fin(Dec(15, 1)))]

\* bs_model = BlackScholes(...)
DashboardInit ==
    /\ req \in DashboardRequests
    /\ self = BlackScholes(req)
    /\ prices_ret = NoPrices
    /\ metrics_ret = NoMetrics
    /\ raised = "none"
    /\ calls = 0
    /\ pc = "calculate_prices"
    /\ sweep = default_sweep(req)
    /\ heatmaps = NoHeatmaps

\* call_price, put_price = bs_model.calculate_prices()
RunCalculatePrices ==
    /\ pc = "calculate_prices"
    /\ calls' = calls + 1
    /\ IF prices_raise(self)
       THEN /\ raised' = "ZeroDivisionError"
            /\ pc' = "stopped"
            /\ UNCHANGED <<self, prices_ret>>
       ELSE /\ raised' = "none"
            /\ pc' = "calculate_risk_metrics"
            /\ self' = calculate_prices(self)
            /\ prices_ret' = <<self'.call_price, self'.put_price>>
    /\ UNCHANGED <<req, metrics_ret, sweep, heatmaps>>

\* risk_metrics = bs_model.calculate_risk_metrics()
RunCalculateRiskMetrics ==
    /\ pc = "calculate_risk_metrics"
    /\ calls' = calls + 1
    /\ raised' = "none"
    /\ self' = calculate_risk_metrics(self)
    /\ metrics_ret' = risk_metrics(self')
    /\ pc' = "value_call"
    /\ UNCHANGED <<req, prices_ret, sweep, heatmaps>>

\* One plot_heatmap call of the script: the heatmap `type`, drawn with the
\* sidebar's strike and `purchase_price`; the script goes on at `next`.
PlotHeatmap(type, purchase_price, next) ==
    /\ pc = type
    /\ IF prices_raise(bs_temp(self, req.strike, req.current_price, req.volatility))
       THEN /\ raised' = "ZeroDivisionError"
            /\ pc' = "stopped"
            /\ UNCHANGED heatmaps
       ELSE /\ raised' = "none"
            /\ pc' = next
            /\ heatmaps' = [heatmaps EXCEPT ![type] =
                   plot_heatmap(self, spot_range, vol_range, req.strike,
                                purchase_price, type)]
    /\ UNCHANGED <<req, self, prices_ret, metrics_ret, calls, sweep>>

\* plot_heatmap(bs_model, spot_range, vol_range, strike, type='value_call')
PlotCallValue == PlotHeatmap("value_call", None, "pnl_call")

\* plot_heatmap(bs_model, spot_range, vol_range, strike, call_purchase_price, type='pnl_call')
PlotCallPnl == PlotHeatmap("pnl_call", req.call_purchase_price, "value_put")

\* plot_heatmap(bs_model, spot_range, vol_range, strike, type='value_put')
PlotPutValue == PlotHeatmap("value_put", None, "pnl_put")

\* plot_heatmap(bs_model, spot_range, vol_range, strike, put_purchase_price, type='pnl_put')
PlotPutPnl == PlotHeatmap("pnl_put", req.put_purchase_price, "done")

DashboardNext ==
    \/ RunCalculatePrices
    \/ RunCalculateRiskMetrics
    \/ PlotCallValue
    \/ PlotCallPnl
    \/ PlotPutValue
    \/ PlotPutPnl

DashboardSpec == DashboardInit /\ [][DashboardNext]_vars

-----------------------------------------------------------------------------
(* Properties.                                                             *)

\* calculate_prices has returned on this instance.
PricesDone  == self.call_price # Unset
\* calculate_risk_metrics has returned on this instance.
MetricsDone == self.max_call_loss # Unset

\* The PnL fields a leg bought at `purchase` and worth `price` is said to have.
StatedPnl(price, purchase) ==
    LET pnl == FSub(price, purchase)
    IN  [pnl |-> pnl,
         pct |-> IF FEq(purchase, Zero) THEN Zero
                 ELSE float_format(FMul(FDiv(pnl, purchase), Hundred))]

\* C1: after calculate_prices, a leg whose purchase price is supplied has
\* pnl = price - purchase_price and pnl_percentage = pnl / purchase_price * 100
\* (0 when the purchase price is 0), whatever purchase_time_to_maturity is.
C1_PnlIsPriceDifference ==
    PricesDone =>
        /\ self.call_purchase_price # None =>
              LET e == StatedPnl(self.call_price, self.call_purchase_price)
              IN  self.call_pnl = e.pnl /\ self.call_pnl_percentage = e.pct
        /\ self.put_purchase_price # None =>
              LET e == StatedPnl(self.put_price, self.put_purchase_price)
              IN  self.put_pnl = e.pnl /\ self.put_pnl_percentage = e.pct

\* C2: a request with a non-positive time_to_maturity, volatility, strike or
\* current_price is rejected: no price or PnL field is stored for it and no
\* price pair is returned.
C2_InvalidRequestRejected ==
    Invalid(req) =>
        /\ \A f \in PriceFields : self[f] = Unset
        /\ prices_ret = NoPrices

\* 1e-7, the tolerance of the parity test: a thousand steps of the rounding grid.
ParityTol == Fin(1000 * Grid)

\* The request is valid: T, K, S, sigma > 0 and r >= 0.
Valid(r) == ~Invalid(r) /\ ~FLess(r.interest_rate, Zero)

\* C3: put-call parity: for every valid request on which calculate_prices was
\* called, the returned pair satisfies
\* call_price - put_price = current_price - strike * e^(-interest_rate * time_to_maturity)
\* within 1e-7.
C3_PutCallParity ==
    (Valid(req) /\ calls > 0 /\ raised = "none" /\ PricesDone) =>
        FLess(FAbs(FSub(FSub(prices_ret[1], prices_ret[2]),
                        FSub(self.current_price, FMul(self.strike, discount(self))))),
              ParityTol)

\* C4: after calculate_prices, a leg whose purchase price is None has pnl and
\* pnl_percentage exactly 0.0, whatever the other inputs and the other leg are.
C4_NoPositionZeroPnl ==
    PricesDone =>
        /\ req.call_purchase_price = None =>
              self.call_pnl = Zero /\ self.call_pnl_percentage = Zero
        /\ req.put_purchase_price = None =>
              self.put_pnl = Zero /\ self.put_pnl_percentage = Zero

\* A state of C4: the call leg has no position while the put leg shows a PnL.
C4_Witness ==
    /\ PricesDone
    /\ req.call_purchase_price = None
    /\ self.call_pnl = Zero
    /\ req.put_purchase_price # None
    /\ self.put_pnl # Zero

\* Parity on the requests whose stored parameters are still positive (the
\* constructor's rounding has not taken T, K, S or sigma to zero).
ParityWhenStoredPositive ==
    (Valid(req) /\ Valid(self)) => C3_PutCallParity

\* A state of the parity check: prices were returned for a valid request away
\* from the money.
ParityWitness ==
    /\ Valid(req) /\ Valid(self) /\ PricesDone
    /\ self.strike # self.current_price
    /\ FLess(Zero, prices_ret[1]) /\ FLess(Zero, prices_ret[2])

\* C5: calculate_risk_metrics gives max_call_gain = +inf whenever a call
\* purchase price is supplied (0 included) and 0.0 when it is None; the
\* dashboard's comparison with float('inf') tells the two apart.
C5_MaxCallGainInfinite ==
    MetricsDone =>
        /\ metrics_ret.max_call_gain = self.max_call_gain
        /\ IF req.call_purchase_price # None
           THEN self.max_call_gain = PosInf /\ shows_inf(metrics_ret)
           ELSE self.max_call_gain = Zero /\ ~shows_inf(metrics_ret)

\* A state of C5: a call bought at price 0 has an infinite maximum gain.
C5_Witness ==
    /\ MetricsDone
    /\ req.call_purchase_price = Zero
    /\ metrics_ret.max_call_gain = PosInf

\* C6: calculate_risk_metrics gives max_call_loss = |call_purchase_price| and
\* max_put_loss = |put_purchase_price| for a supplied purchase price of any
\* sign, and 0.0 for a purchase price that is None.
C6_MaxLossIsAbsPurchase ==
    MetricsDone =>
        /\ metrics_ret.max_call_loss = self.max_call_loss
        /\ metrics_ret.max_put_loss = self.max_put_loss
        /\ self.max_call_loss = IF self.call_purchase_price # None
                                THEN FAbs(self.call_purchase_price) ELSE Zero
        /\ self.max_put_loss = IF self.put_purchase_price # None
                               THEN FAbs(self.put_purchase_price) ELSE Zero

\* A state of C6: both legs were bought at a negative price.
C6_Witness ==
    /\ MetricsDone
    /\ FLess(req.call_purchase_price, Zero) /\ FLess(Zero, metrics_ret.max_call_loss)
    /\ FLess(req.put_purchase_price, Zero) /\ FLess(Zero, metrics_ret.max_put_loss)

\* C7: calculate_risk_metrics gives call_breakeven = strike + call_purchase_price
\* and put_breakeven = strike - put_purchase_price, a purchase price that is
\* None counting as 0.
C7_Breakeven ==
    MetricsDone =>
        /\ metrics_ret.call_breakeven = self.call_breakeven
        /\ metrics_ret.put_breakeven = self.put_breakeven
        /\ self.call_breakeven = IF self.call_purchase_price = None THEN self.strike
                                 ELSE FAdd(self.strike, self.call_purchase_price)
        /\ self.put_breakeven = IF self.put_purchase_price = None THEN self.strike
                                ELSE FSub(self.strike, self.put_purchase_price)

\* A state of C7: both purchase prices are supplied and move the breakevens
\* off the strike.
C7_Witness ==
    /\ MetricsDone
    /\ req.call_purchase_price # None /\ req.put_purchase_price # None
    /\ FLess(self.strike, metrics_ret.call_breakeven)
    /\ FLess(metrics_ret.put_breakeven, self.strike)

\* C8: calculate_risk_metrics gives max_put_gain = strike - put_purchase_price
\* when a put purchase price is supplied (0 included, and a price above the
\* strike giving a negative value) and 0.0 when it is None.
C8_MaxPutGain ==
    MetricsDone =>
        /\ metrics_ret.max_put_gain = self.max_put_gain
        /\ self.max_put_gain = IF self.put_purchase_price # None
                               THEN FSub(self.strike, self.put_purchase_price)
                               ELSE Zero

\* A state of C8: the put was bought above the strike and its maximum gain is
\* negative.
C8_Witness ==
    /\ MetricsDone
    /\ FLess(self.strike, req.put_purchase_price)
    /\ FLess(metrics_ret.max_put_gain, Zero)

\* What the two methods give on a fresh instance of the same request.
FreshPrices(r)  == calculate_prices(BlackScholes(r))
FreshMetrics(r) == risk_metrics(calculate_risk_metrics(BlackScholes(r)))

\* C9: in any sequence of calls on one instance, the input attributes never
\* change, every calculate_prices call returns the same pair and leaves the
\* same price and PnL attributes, and every calculate_risk_metrics call returns
\* the same metrics, whether or not calculate_prices was called before: each
\* result is the one a fresh instance of the request gives.
C9_CallsAreIdempotent ==
    [][/\ \A f \in InputFields : self'[f] = self[f]
       /\ PricesDone =>
             /\ \A f \in PriceFields : self'[f] = self[f]
             /\ prices_ret' = prices_ret
       /\ MetricsDone =>
             /\ \A f \in RiskFields : self'[f] = self[f]
             /\ metrics_ret' = metrics_ret
       /\ PricesDone' =>
             LET fresh == FreshPrices(req)
             IN  /\ \A f \in PriceFields : self'[f] = fresh[f]
                 /\ prices_ret' = <<fresh.call_price, fresh.put_price>>
       /\ MetricsDone' => metrics_ret' = FreshMetrics(req)
      ]_vars

\* A state of C9: every allowed call was made and both methods have run, so
\* one of them ran again on its own results.
C9_Witness ==
    /\ calls = MaxCalls
    /\ PricesDone /\ MetricsDone
    /\ self.call_pnl # Zero

\* The value is one the rounding step leaves as it is.
IsRounded(x) == float_format(x) = x

\* The Greeks, which calculate_prices stores as computed.
GreekFields == {"call_delta", "put_delta", "gamma"}

\* C10 as stated: every attribute stored on the object, the Greeks included,
\* has passed through the rounding step.
C10_EveryFieldRounded ==
    \A f \in InputFields \cup PriceFields \cup RiskFields :
        self[f] \notin {Unset, None} => IsRounded(self[f])

\* C10 as amended: every attribute stored on the object other than call_delta,
\* put_delta and gamma holds a value the rounding step leaves unchanged.
C10_EveryFieldButGreeksRounded ==
    \A f \in (InputFields \cup PriceFields \cup RiskFields) \ GreekFields :
        self[f] \notin {Unset, None} => IsRounded(self[f])

\* A state of C10: an input with digits below the rounding grid was stored
\* rounded, and both methods have stored their results.
C10_Witness ==
    /\ PricesDone /\ MetricsDone
    /\ self.current_price # req.current_price
    /\ self.call_pnl # Zero
    /\ ~IsRounded(self.call_delta)

\* The PnL that the instance built for the cell (row i, column j) stores after
\* calculate_prices: call_pnl for 'pnl_call', put_pnl for 'pnl_put'.
CellStoredPnl(type, i, j) ==
    LET priced == calculate_prices(bs_temp(self, req.strike, spot_range[j], vol_range[i]))
    IN  IF type = "pnl_call" THEN priced.call_pnl ELSE priced.put_pnl

\* The cells of a plotted PnL heatmap hold the PnL their instances store.
HeatmapAgrees(type) ==
    heatmaps[type] # <<>> =>
        \A i \in 1..HeatmapPoints, j \in 1..HeatmapPoints :
            heatmaps[type][i][j] = CellStoredPnl(type, i, j)

\* C11: in the dashboard, every cell of a PnL heatmap holds the call_pnl (type
\* 'pnl_call') or put_pnl (type 'pnl_put') that the BlackScholes instance built
\* for the cell stores after calculate_prices.
C11_HeatmapPnlIsStoredPnl ==
    HeatmapAgrees("pnl_call") /\ HeatmapAgrees("pnl_put")

=============================================================================
